---- MODULE Spec2Model ----
(***************************************************************************)
(* Model of the bplus append-only B+ tree: the page engine (src/pages.c)   *)
(* and the file writer (src/writer.c), driven by the public operations of  *)
(* the tree (open, close, get, set, remove, compact).                      *)
(*                                                                         *)
(* The file is a sequence of blocks; a block records the byte offset it    *)
(* was written at, the number of bytes it occupies on disk and what was    *)
(* written.  Bytes between blocks are zero padding or foreign bytes.       *)
(***************************************************************************)
EXTENDS Integers, Sequences, FiniteSets, TLC

VARIABLES
  file,       \* blocks of the backing file, in offset order
  filesize,   \* size of the backing file in bytes (w->filesize while open)
  opened,     \* TRUE while a tree handle is open on the file
  head,       \* t->head of the open handle
  head_page,  \* t->head_page of the open handle (in-memory root page)
  shadow,     \* for every key, the value of its last successful set, or NoValue
  removed,    \* keys whose last successful mutation was a remove
  last,       \* the last public operation and what it returned
  before,     \* observations taken at the start of the last operation
  nops        \* number of public operations performed

vars == <<file, filesize, opened, head, head_page,
          shadow, removed, last, before, nops>>

(***************************************************************************)
(* Bounds of the model.                                                    *)
(***************************************************************************)
MaxKey == 12      \* keys are the one-byte strings <<1>> .. <<MaxKey>>
MaxOps == 2       \* public operations after the initial population
MaxCrashKey == 2  \* keys <<1>> .. <<MaxCrashKey>> of SpecCrash and SpecFail
MaxCrashOps == 6  \* operations and file damages in SpecCrash and SpecFail
MaxBadStride == 3  \* strides of the head scan at which a read may fail in SpecFind
MaxGarbage == 8   \* most foreign bytes appended to a closed file at once
MaxAllocs == 1    \* page buffers granted before malloc fails, in SpecFail
MaxWrites == 2    \* writes in SpecWriter
MaxWriteSize == 9 \* largest payload in SpecWriter
MaxFileSize == 17 \* largest initial file in SpecWriter
MaxPageSize == 5  \* largest page_size in SpecSplit
MaxSplitKey == 6  \* keys of a full page are drawn from 1 .. MaxSplitKey in SpecSplit

(***************************************************************************)
(* Program constants.                                                      *)
(***************************************************************************)
kPage == 0
kLeaf == 1
PaddingSize == 8        \* sizeof(w->padding)
BP__HEAD_SIZE == 32     \* four 64-bit fields
BP__KV_HEADER == 24     \* length, offset, config
DefaultPageSize == 4    \* branching factor written into a fresh head
CompressOverhead == 2   \* framing bytes the compressor adds to a payload

HeadHash == "bplus-head"
NoValue == << -1 >>   \* no value: the key is absent
\* what a read hands back: the payload of one whole block, nothing (an empty
\* read) or bytes that are no block
Junk == [kind |-> "junk", body |-> <<>>]
Null == [kind |-> "null", body |-> <<>>]
\* head_page == NULL
NoPage == [type |-> -1, length |-> 0, keys |-> <<>>, byte_size |-> 0,
           offset |-> 0, config |-> 0]

Min(a, b) == IF a < b THEN a ELSE b

\* Body applied to a value computed once
With(e, Body(_)) == Body(e)

Keys == { <<b>> : b \in 1..MaxKey }
Values == { <<>>, <<1, 2, 3>> }

(***************************************************************************)
(* The block compressor is an external collaborator: what the model keeps  *)
(* of it is that a compressed payload occupies a size different from the   *)
(* payload's, and that uncompress inverts compress on an intact block.     *)
(***************************************************************************)
bp__compressed_size(usize) == usize + CompressOverhead

BP__KV_SIZE(kv) == BP__KV_HEADER + kv.length

RECURSIVE SumKV(_, _)
SumKV(keys, n) == IF n = 0 THEN 0 ELSE BP__KV_SIZE(keys[n]) + SumKV(keys, n - 1)

(***************************************************************************)
(* Writer (src/writer.c).  A writer value w has the fields file, filesize   *)
(* and page_size, allocs: the number of page buffers malloc still grants   *)
(* (-1: it never fails), and badread: the offset at which pread fails      *)
(* (-1: at none).                                                          *)
(***************************************************************************)
BlockAt(w, offset, size) ==
  { b \in 1..Len(w.file) : w.file[b].offset = offset /\ w.file[b].size = size }

\* bp__writer_read: [ret, size, data]
bp__writer_read(w, comp, offset, size) ==
  IF w.filesize < offset + size
  THEN [ret |-> "BP_EFILEREAD_OOB", size |-> size, data |-> Junk]
  ELSE IF size = 0
  THEN [ret |-> "BP_OK", size |-> 0, data |-> Null]
  ELSE IF w.badread = offset
  THEN \* pread returns less than size
       [ret |-> "BP_EFILEREAD", size |-> size, data |-> Junk]
  ELSE LET hit == BlockAt(w, offset, size) IN
       IF hit = {}
       THEN \* the bytes read are not one whole block
            IF comp = "kNotCompressed"
            THEN [ret |-> "BP_OK", size |-> size, data |-> Junk]
            ELSE [ret |-> "BP_EDECOMP", size |-> size, data |-> Junk]
       ELSE LET blk == w.file[CHOOSE b \in hit : TRUE] IN
            IF comp = "kNotCompressed"
            THEN [ret |-> "BP_OK", size |-> size,
                  data |-> IF blk.comp = "kNotCompressed" THEN blk.data ELSE Junk]
            ELSE IF blk.comp = "kNotCompressed"
                 THEN [ret |-> "BP_EDECOMP", size |-> size, data |-> Junk]
                 ELSE [ret |-> "BP_OK", size |-> blk.usize, data |-> blk.data]

Padding(fsize) == PaddingSize - (fsize % PaddingSize)

\* a padding step that writes nothing
WritePadding_none(w) == w

\* the padding step of bp__writer_write
WritePadding(w) ==
  IF Padding(w.filesize) # PaddingSize
  THEN [w EXCEPT !.filesize = w.filesize + Padding(w.filesize)]
  ELSE w

\* a write without O_APPEND: the payload lands at the start of the file
bp__writer_write_in_place(w, comp, data, size) ==
  IF size = -1 \/ size = 0
  THEN [ret |-> "BP_OK", w |-> w, offset |-> w.filesize, size |-> size]
  ELSE [ret |-> "BP_OK",
        w |-> [w EXCEPT !.file = Append(w.file,
                                        [offset |-> 0, size |-> size, comp |-> comp,
                                         usize |-> size, data |-> data]),
                        !.filesize = IF w.filesize < size THEN size
                                     ELSE w.filesize],
        offset |-> 0, size |-> size]

\* bp__writer_write: [ret, w, offset, size]; size = -1 stands for size == NULL
bp__writer_write(w, comp, data, size) ==
  LET p == WritePadding(w) IN
  IF size = -1 \/ size = 0
  THEN [ret |-> "BP_OK", w |-> p, offset |-> p.filesize, size |-> size]
  ELSE LET csize == IF comp = "kNotCompressed" THEN size
                    ELSE bp__compressed_size(size)
           blk == [offset |-> p.filesize, size |-> csize, comp |-> comp,
                   usize |-> size, data |-> data]
       IN [ret |-> "BP_OK",
           w |-> [p EXCEPT !.file = Append(p.file, blk),
                           !.filesize = p.filesize + csize],
           offset |-> p.filesize,
           size |-> csize]

(***************************************************************************)
(* Page engine (src/pages.c).  A page has the fields type, length, keys,   *)
(* byte_size, offset and config; keys holds the array slots in use, and    *)
(* indexes are the code's, from 0.                                         *)
(***************************************************************************)
bp__page_create(type, offset, config) ==
  IF type = kLeaf
  THEN [type |-> kLeaf, length |-> 0, keys |-> <<>>, byte_size |-> 0,
        offset |-> offset, config |-> config]
  ELSE [type |-> type, length |-> 1,
        keys |-> << [length |-> 0, offset |-> 0, config |-> 0, value |-> <<>>] >>,
        byte_size |-> BP__KV_HEADER,
        offset |-> offset, config |-> config]

\* bp__page_load: [ret, page]
bp__page_load(w, page) ==
  LET size == page.config \div 2
      type == IF page.config % 2 = 1 THEN kLeaf ELSE kPage
      typed == [page EXCEPT !.type = type]
  IN With(bp__writer_read(w, "kCompressed", page.offset, size), LAMBDA r:
       IF r.ret # "BP_OK" THEN [ret |-> r.ret, page |-> typed]
       ELSE IF r.data.kind \notin {"page", "null"}
       THEN \* the bytes of a value parsed as entries
            [ret |-> "GARBAGE", page |-> typed]
       ELSE [ret |-> "BP_OK",
             page |-> [typed EXCEPT !.keys = r.data.body,
                                    !.length = Len(r.data.body),
                                    !.byte_size = r.size]])

\* bp__page_save: [ret, w, page]
bp__page_save(w, page) ==
  IF ~(page.type = kLeaf \/ page.length # 0)
  THEN [ret |-> "SIGABRT", w |-> w, page |-> page]
  ELSE IF w.allocs = 0
  THEN [ret |-> "BP_EALLOC", w |-> w, page |-> page]
  ELSE IF SumKV(page.keys, page.length) # page.byte_size
  THEN [ret |-> "SIGABRT", w |-> w, page |-> page]
  ELSE With(bp__writer_write(
              IF w.allocs > 0 THEN [w EXCEPT !.allocs = w.allocs - 1] ELSE w,
              "kCompressed",
              [kind |-> "page", body |-> SubSeq(page.keys, 1, page.length)],
              page.byte_size),
            LAMBDA r:
              [ret |-> r.ret, w |-> r.w,
               page |-> [page EXCEPT !.offset = r.offset,
                                     !.config = r.size * 2 +
                                                (IF page.type = kLeaf THEN 1 ELSE 0)]])

RECURSIVE memcmp(_, _, _, _)
memcmp(a, b, i, n) ==
  IF i > n THEN 0
  ELSE IF a[i] # b[i] THEN (IF a[i] > b[i] THEN 1 ELSE -1)
  ELSE memcmp(a, b, i + 1, n)

\* the default comparator: memcmp, then the shorter key is the lesser
compare_cb(a, b) ==
  With(memcmp(a.value, b.value, 1, Min(a.length, b.length)), LAMBDA r:
    IF r # 0 THEN r ELSE a.length - b.length)

\* the scan of bp__page_search: [index, cmp]
RECURSIVE SearchScan(_, _, _, _)
SearchScan(page, kv, i, cmp) ==
  IF i < page.length
  THEN With(compare_cb(page.keys[i + 1], kv), LAMBDA c:
         IF c >= 0 THEN [index |-> i, cmp |-> c]
         ELSE SearchScan(page, kv, i + 1, c))
  ELSE [index |-> i, cmp |-> cmp]

\* the descent of bp__page_search into the child at slot i
SearchChild(w, page, s, i) ==
  With(bp__page_load(w, bp__page_create(kPage, page.keys[i + 1].offset,
                                        page.keys[i + 1].config)),
       LAMBDA l: [ret |-> l.ret, cmp |-> s.cmp, index |-> i, child |-> l.page])

\* bp__page_search: [ret, cmp, index, child]
bp__page_search(w, page, kv) ==
  With(SearchScan(page, kv, IF page.type = kPage THEN 1 ELSE 0, -1), LAMBDA s:
    IF page.type = kLeaf
    THEN [ret |-> "BP_OK", cmp |-> s.cmp, index |-> s.index, child |-> NoPage]
    ELSE IF s.index = 0  \* assert(i > 0)
    THEN [ret |-> "SIGABRT", cmp |-> s.cmp, index |-> 0, child |-> NoPage]
    ELSE SearchChild(w, page, s, IF s.cmp # 0 THEN s.index - 1 ELSE s.index))

\* the value read of bp__page_get: [ret, value]
GetValue(w, kv) ==
  With(bp__writer_read(w, "kCompressed", kv.offset, kv.config), LAMBDA r:
    [ret |-> r.ret, value |-> IF r.ret = "BP_OK" THEN r.data.body ELSE NoValue])

\* bp__page_get: [ret, value]
RECURSIVE bp__page_get(_, _, _)
bp__page_get(w, page, kv) ==
  With(bp__page_search(w, page, kv), LAMBDA res:
    IF res.ret # "BP_OK" THEN [ret |-> res.ret, value |-> NoValue]
    ELSE IF res.child = NoPage
    THEN IF res.cmp # 0 THEN [ret |-> "BP_ENOTFOUND", value |-> NoValue]
         ELSE GetValue(w, page.keys[res.index + 1])
    ELSE bp__page_get(w, res.child, kv))

\* bp__page_shiftr: slots index .. length-1 move one slot to the right
bp__page_shiftr(p, index) ==
  IF p.length # 0 /\ index <= p.length - 1
  THEN [p EXCEPT !.keys = SubSeq(p.keys, 1, index + 1) \o
                          SubSeq(p.keys, index + 1, p.length)]
  ELSE p

\* a shift that moves nothing: the last slot is the one that goes
bp__page_shiftl_none(p, index) ==
  [p EXCEPT !.keys = SubSeq(p.keys, 1, p.length - 1)]

\* bp__page_shiftl: slots index+1 .. length-1 move one slot to the left
bp__page_shiftl(p, index) ==
  [p EXCEPT !.keys = SubSeq(p.keys, 1, index) \o
                     SubSeq(p.keys, index + 2, p.length)]

\* p->keys[index] = kv
SetKey(p, index, kv) ==
  [p EXCEPT !.keys = IF index + 1 <= Len(p.keys)
                     THEN [p.keys EXCEPT ![index + 1] = kv]
                     ELSE Append(p.keys, kv)]

\* bp__page_remove_idx
bp__page_remove_idx(page, index) ==
  [bp__page_shiftl(page, index) EXCEPT
     !.byte_size = page.byte_size - BP__KV_SIZE(page.keys[index + 1]),
     !.length = page.length - 1]

\* one half of a split child: the entries from .. to, with length middle
SplitHalf(child, from, to, middle) ==
  With(SubSeq(child.keys, from, to), LAMBDA ks:
    [bp__page_create(child.type, 0, 0) EXCEPT
       !.keys = ks, !.byte_size = SumKV(ks, Len(ks)), !.length = middle])

\* the parent of a split, once both halves are saved at sl and sr
SplitParent(parent, index, middle_key, sl, sr) ==
  With([middle_key EXCEPT !.offset = sr.offset, !.config = sr.config], LAMBDA mk:
    [SetKey(bp__page_shiftr(parent, index + 1), index + 1, mk) EXCEPT
       !.byte_size = parent.byte_size + BP__KV_SIZE(mk),
       !.length = parent.length + 1,
       !.keys[index + 1].offset = sl.offset,
       !.keys[index + 1].config = sl.config])

\* the body of bp__page_split, given the entry copied as middle_key
SplitAround(w, parent, index, child, middle_key) ==
  With(w.page_size \div 2, LAMBDA middle:
    With(bp__page_save(w, SplitHalf(child, 1, middle, middle)), LAMBDA sl:
      IF sl.ret # "BP_OK" THEN [ret |-> sl.ret, w |-> sl.w, page |-> parent]
      ELSE With(bp__page_save(sl.w, SplitHalf(child, middle + 1, w.page_size,
                                              middle)),
                LAMBDA sr:
                  IF sr.ret # "BP_OK"
                  THEN [ret |-> sr.ret, w |-> sr.w, page |-> parent]
                  ELSE [ret |-> "BP_OK", w |-> sr.w,
                        page |-> SplitParent(parent, index, middle_key,
                                             sl.page, sr.page)])))

\* a split that takes the entry after the middle one as the separator
bp__page_split_late_key(w, parent, index, child) ==
  SplitAround(w, parent, index, child, child.keys[(w.page_size \div 2) + 2])

\* bp__page_split: [ret, w, page], page being the parent
bp__page_split(w, parent, index, child) ==
  SplitAround(w, parent, index, child, child.keys[(w.page_size \div 2) + 1])

\* a tail that saves the page whatever its length
InsertFinish_no_split(w, page, isRoot) == bp__page_save(w, page)

\* the tail of bp__page_insert, from the length check on: [ret, w, page]
InsertFinish(w, page, isRoot) ==
  IF page.length = w.page_size /\ ~isRoot
  THEN [ret |-> "BP_ESPLITPAGE", w |-> w, page |-> page]
  ELSE With(IF page.length = w.page_size
            THEN bp__page_split(w, bp__page_create(kPage, 0, 0), 0, page)
            ELSE [ret |-> "BP_OK", w |-> w, page |-> page],
            LAMBDA s:
              IF s.ret # "BP_OK" THEN [ret |-> s.ret, w |-> s.w, page |-> page]
              ELSE IF ~(s.page.length < w.page_size)
              THEN [ret |-> "SIGABRT", w |-> s.w, page |-> s.page]
              ELSE bp__page_save(s.w, s.page))

\* the leaf branch without the removal of an entry with an equal key
InsertAtLeaf_keep(page, kv, res) ==
  [SetKey(bp__page_shiftr(page, res.index), res.index, kv) EXCEPT
     !.byte_size = page.byte_size + BP__KV_SIZE(kv),
     !.length = page.length + 1]

\* the leaf branch of bp__page_insert: the page with kv at res.index
InsertAtLeaf(page, kv, res) ==
  With(IF res.cmp = 0 THEN bp__page_remove_idx(page, res.index) ELSE page,
       LAMBDA p1:
         [SetKey(bp__page_shiftr(p1, res.index), res.index, kv) EXCEPT
            !.byte_size = p1.byte_size + BP__KV_SIZE(kv),
            !.length = p1.length + 1])

\* an update that leaves the entry at the child's previous block
UpdateOffsets_stale(page, index, child) == page

\* page->keys[index] takes the offset and config of the saved child
UpdateOffsets(page, index, child) ==
  [page EXCEPT !.keys[index + 1].offset = child.offset,
               !.keys[index + 1].config = child.config]

\* bp__page_insert: [ret, w, page]; isRoot stands for page == t->head_page,
\* and the page returned by the root's frame is t->head_page after the call
RECURSIVE bp__page_insert(_, _, _, _)
bp__page_insert(w, page, kv, isRoot) ==
  With(bp__page_search(w, page, kv), LAMBDA res:
    IF res.ret # "BP_OK" THEN [ret |-> res.ret, w |-> w, page |-> page]
    ELSE With(IF res.child = NoPage
              THEN [ret |-> "BP_OK", w |-> w, page |-> InsertAtLeaf(page, kv, res)]
              ELSE With(bp__page_insert(w, res.child, kv, FALSE), LAMBDA r:
                     IF r.ret # "BP_OK" /\ r.ret # "BP_ESPLITPAGE"
                     THEN [ret |-> r.ret, w |-> r.w, page |-> page]
                     ELSE IF r.ret = "BP_ESPLITPAGE"
                     THEN bp__page_split(r.w, page, res.index, r.page)
                     ELSE [ret |-> "BP_OK", w |-> r.w,
                           page |-> UpdateOffsets(page, res.index, r.page)]),
              LAMBDA m:
                IF m.ret # "BP_OK" THEN m
                ELSE InsertFinish(m.w, m.page, isRoot)))

\* the collapse of bp__page_remove: the last child is loaded as the page itself
RemoveCollapse(w, page) ==
  bp__page_load(w, bp__page_remove_idx([page EXCEPT !.offset = page.keys[1].offset,
                                                    !.config = page.keys[1].config],
                                       0))

\* the leaf branch of bp__page_remove, up to the save: [ret, w, page]
RemoveAtLeaf(w, page, res, isRoot, absent) ==
  IF absent THEN [ret |-> "BP_ENOTFOUND", w |-> w, page |-> page]
  ELSE With(bp__page_remove_idx(page, res.index), LAMBDA p1:
         [ret |-> IF p1.length = 0 /\ ~isRoot THEN "BP_EEMPTYPAGE" ELSE "BP_OK",
          w |-> w, page |-> p1])

\* a leaf branch that reports BP_ENOTFOUND only past the last entry
bp__page_remove_leaf_lt(w, page, res, isRoot) ==
  RemoveAtLeaf(w, page, res, isRoot, res.cmp < 0)

\* a leaf branch that reports an emptied page whatever the page is
bp__page_remove_leaf_any(w, page, res, isRoot) ==
  RemoveAtLeaf(w, page, res, FALSE, res.cmp # 0)

bp__page_remove_leaf(w, page, res, isRoot) ==
  RemoveAtLeaf(w, page, res, isRoot, res.cmp # 0)

\* the BP_EEMPTYPAGE branch of bp__page_remove, up to the save: [ret, w, page]
RemoveEmptyChild(w, page, index) ==
  With(bp__page_remove_idx(page, index), LAMBDA p1:
    IF p1.length = 1
    THEN With(RemoveCollapse(w, p1), LAMBDA l:
           [ret |-> l.ret, w |-> w, page |-> l.page])
    ELSE [ret |-> "BP_OK", w |-> w, page |-> p1])

\* bp__page_remove: [ret, w, page]
RECURSIVE bp__page_remove(_, _, _, _)
bp__page_remove(w, page, kv, isRoot) ==
  With(bp__page_search(w, page, kv), LAMBDA res:
    IF res.ret # "BP_OK" THEN [ret |-> res.ret, w |-> w, page |-> page]
    ELSE With(IF res.child = NoPage
              THEN bp__page_remove_leaf(w, page, res, isRoot)
              ELSE With(bp__page_remove(w, res.child, kv, FALSE), LAMBDA r:
                     IF r.ret # "BP_OK" /\ r.ret # "BP_EEMPTYPAGE"
                     THEN [ret |-> r.ret, w |-> r.w, page |-> page]
                     ELSE IF r.ret = "BP_EEMPTYPAGE"
                     THEN RemoveEmptyChild(r.w, page, res.index)
                     ELSE [ret |-> "BP_OK", w |-> r.w,
                           page |-> UpdateOffsets(page, res.index, r.page)]),
              LAMBDA m:
                IF m.ret # "BP_OK" THEN m
                ELSE bp__page_save(m.w, m.page)))

\* one turn of the loop of bp__page_copy, up to the update of entry i:
\* [ret, w, offset, config], the child's or the value's new place
RECURSIVE bp__page_copy_from(_, _, _, _)
CopyEntry(source, w, page, i) ==
  IF page.type = kPage
  THEN With(bp__page_load(source, bp__page_create(kPage, page.keys[i + 1].offset,
                                                  page.keys[i + 1].config)),
            LAMBDA l:
              IF l.ret # "BP_OK"
              THEN [ret |-> l.ret, w |-> w, offset |-> 0, config |-> 0]
              ELSE With(bp__page_copy_from(source, w, l.page, 0), LAMBDA c:
                     [ret |-> c.ret, w |-> c.w,
                      offset |-> c.page.offset, config |-> c.page.config]))
  ELSE With(bp__writer_read(source, "kCompressed", page.keys[i + 1].offset,
                            page.keys[i + 1].config),
            LAMBDA rd:
              IF rd.ret # "BP_OK"
              THEN [ret |-> rd.ret, w |-> w, offset |-> 0, config |-> 0]
              ELSE With(bp__writer_write(w, "kCompressed", rd.data, rd.size),
                        LAMBDA wr: [ret |-> wr.ret, w |-> wr.w,
                                    offset |-> wr.offset, config |-> wr.size]))

\* bp__page_copy, entries i .. length-1 and the final save: [ret, w, page]
\* (w is the target's writer, source the source's)
bp__page_copy_from(source, w, page, i) ==
  IF i >= page.length THEN bp__page_save(w, page)
  ELSE With(CopyEntry(source, w, page, i), LAMBDA e:
         IF e.ret # "BP_OK" THEN [ret |-> e.ret, w |-> e.w, page |-> page]
         ELSE bp__page_copy_from(source, e.w, UpdateOffsets(page, i, e), i + 1))

\* a copy that saves the page and leaves its entries where they are
bp__page_copy_shallow(source, target, page) == bp__page_save(target, page)

bp__page_copy(source, target, page) == bp__page_copy_from(source, target, page, 0)

(***************************************************************************)
(* Tree.  A tree value t is a writer value with the fields head and        *)
(* head_page added (the C tree embeds the writer as its first field);      *)
(* t.page_size is t->head.page_size.                                       *)
(***************************************************************************)
NoHead == [page_size |-> 0, hash |-> "", offset |-> 0, config |-> 0]

\* the head record of a tree
HeadOf(t) ==
  [page_size |-> t.page_size, hash |-> HeadHash,
   offset |-> t.head_page.offset, config |-> t.head_page.config]

\* the head writer, also the miss callback of the head scan: [ret, t]
bp__tree_write_head(t) ==
  With(IF t.head_page = NoPage
       THEN [t EXCEPT !.page_size = DefaultPageSize,
                      !.head_page = bp__page_create(kLeaf, 0, 1)]
       ELSE t,
       LAMBDA t1:
         With(bp__writer_write(t1, "kNotCompressed",
                               [kind |-> "head", body |-> HeadOf(t1)],
                               BP__HEAD_SIZE),
              LAMBDA wr: [ret |-> wr.ret, t |-> [wr.w EXCEPT !.head = HeadOf(t1)]]))

\* the seek callback of the head scan: [ret, t]; BP_OK is a match
bp__tree_read_head(t, data) ==
  IF data.kind # "head" THEN [ret |-> "NOMATCH", t |-> t]
  ELSE IF data.body.hash # HeadHash THEN [ret |-> "NOMATCH", t |-> t]
  ELSE With(bp__page_load(t, bp__page_create(kLeaf, data.body.offset,
                                             data.body.config)),
            LAMBDA l:
              [ret |-> l.ret,
               t |-> IF l.ret = "BP_OK"
                     THEN [t EXCEPT !.head = data.body,
                                    !.page_size = data.body.page_size,
                                    !.head_page = l.page]
                     ELSE t])

\* the loop of bp__writer_find: [ret, t, match]
RECURSIVE FindScan(_, _, _, _)
FindScan(t, comp, size, offset) ==
  IF offset >= size
  THEN With(bp__writer_read(t, comp, offset - size, size), LAMBDA r:
         IF r.ret # "BP_OK" THEN [ret |-> r.ret, t |-> t, match |-> FALSE]
         ELSE With(bp__tree_read_head(t, r.data), LAMBDA s:
                IF s.ret = "BP_OK"
                THEN [ret |-> "BP_OK", t |-> s.t, match |-> TRUE]
                ELSE FindScan(t, comp, size, offset - size)))
  ELSE [ret |-> "BP_OK", t |-> t, match |-> FALSE]

\* a head scan that never calls miss
bp__writer_find_no_miss(t, comp, size) ==
  With(bp__writer_write(t, "kNotCompressed", Null, -1), LAMBDA pad:
    With(FindScan(pad.w, comp, size, pad.w.filesize), LAMBDA scan:
      [ret |-> scan.ret, t |-> scan.t]))

\* bp__writer_find with the tree's callbacks: [ret, t]
bp__writer_find(t, comp, size) ==
  With(bp__writer_write(t, "kNotCompressed", Null, -1), LAMBDA pad:
    IF pad.ret # "BP_OK" THEN [ret |-> pad.ret, t |-> t]
    ELSE With(FindScan(pad.w, comp, size, pad.w.filesize), LAMBDA scan:
           IF ~scan.match THEN bp__tree_write_head(scan.t)
           ELSE [ret |-> scan.ret, t |-> scan.t]))

\* bp__writer_create: the writer of a file holding blocks f in size bytes
bp__writer_create(f, size) ==
  [file |-> f, filesize |-> size, page_size |-> 0, allocs |-> -1,
   badread |-> -1, head |-> NoHead, head_page |-> NoPage]

\* bp_open: [ret, t]
bp_open(f, size) ==
  bp__writer_find(bp__writer_create(f, size), "kNotCompressed", BP__HEAD_SIZE)

KeyKV(key) == [length |-> Len(key), offset |-> 0, config |-> 0, value |-> key]

\* bp_get: [ret, value]
bp_get(t, key) == bp__page_get(t, t.head_page, KeyKV(key))

\* the end of a mutation: the new root is recorded by a new head: [ret, t]
Commit(r) ==
  IF r.ret # "BP_OK" THEN [ret |-> r.ret, t |-> [r.w EXCEPT !.head_page = r.page]]
  ELSE bp__tree_write_head([r.w EXCEPT !.head_page = r.page])

\* bp_set: [ret, t]
bp_set(t, key, value) ==
  With(bp__writer_write(t, "kCompressed",
                        [kind |-> "value", body |-> value], Len(value)),
       LAMBDA wr:
         IF wr.ret # "BP_OK" THEN [ret |-> wr.ret, t |-> wr.w]
         ELSE With(bp__page_insert(wr.w, t.head_page,
                                   [KeyKV(key) EXCEPT !.offset = wr.offset,
                                                      !.config = wr.size],
                                   TRUE),
                   LAMBDA ins: Commit(ins)))

\* bp_remove: [ret, t]
bp_remove(t, key) ==
  With(bp__page_remove(t, t.head_page, KeyKV(key), TRUE), LAMBDA rm: Commit(rm))

\* bp__writer_compact_finalize: both trees are closed, the target's file takes
\* the source's name and the source is opened again: [ret, t]
bp__writer_compact_finalize(s, t) == bp_open(t.file, t.filesize)

\* bp_compact: [ret, t]
bp_compact(t) ==
  With(bp_open(<<>>, 0), LAMBDA target:
    IF target.ret # "BP_OK" THEN [ret |-> target.ret, t |-> t]
    ELSE With(bp__page_copy(t, target.t, t.head_page), LAMBDA cp:
           IF cp.ret # "BP_OK" THEN [ret |-> cp.ret, t |-> t]
           ELSE With(bp__tree_write_head([cp.w EXCEPT !.head_page = cp.page]),
                     LAMBDA wh:
                       IF wh.ret # "BP_OK" THEN [ret |-> wh.ret, t |-> t]
                       ELSE bp__writer_compact_finalize(t, wh.t))))

\* what get returns for every key: its value, NoValue for BP_ENOTFOUND
Failed == << -2 >>
GetOutcome(g) ==
  IF g.ret = "BP_OK" THEN g.value
  ELSE IF g.ret = "BP_ENOTFOUND" THEN NoValue
  ELSE Failed

Mapping(t) == [k \in Keys |-> GetOutcome(bp_get(t, k))]

EmptyMapping == [k \in Keys |-> NoValue]

(***************************************************************************)
(* State machine.                                                          *)
(***************************************************************************)
\* the open handle as a tree value whose malloc grants a more page buffers
Tree(a) ==
  [file |-> file, filesize |-> filesize, page_size |-> head.page_size,
   allocs |-> a, badread |-> -1, head |-> head, head_page |-> head_page]

Install(t) ==
  /\ file' = t.file
  /\ filesize' = t.filesize
  /\ head' = t.head
  /\ head_page' = t.head_page

Result(op, key, value, ret) ==
  [op |-> op, key |-> key, value |-> value, ret |-> ret]

\* a file that does not exist yet, and no handle
InitAbsent ==
  /\ file = <<>>
  /\ filesize = 0
  /\ opened = FALSE
  /\ head = NoHead
  /\ head_page = NoPage
  /\ shadow = EmptyMapping
  /\ removed = {}
  /\ last = Result("none", <<>>, NoValue, "BP_OK")
  /\ before = [filesize |-> 0, map |-> EmptyMapping, tail |-> "intact"]
  /\ nops = 0

\* the tree after open on a fresh path, set of the keys <<1>> .. <<n>> and
\* remove of the keys <<1>> .. <<r>>
SeedValue == <<1, 2, 3>>
RECURSIVE Populated(_, _)
Populated(n, r) ==
  IF r > 0 THEN bp_remove(Populated(n, r - 1), <<r>>).t
  ELSE IF n = 0 THEN bp_open(<<>>, 0).t
  ELSE bp_set(Populated(n - 1, 0), <<n>>, SeedValue).t

\* populations <<n, r>>: a single key; a root leaf one set from its split; a root with two
\* leaves; an internal root one set from its split; a root with two internal
\* children; an internal page below the root one set from its split; and a
\* tree in which an internal page below the root has collapsed into a leaf
Seeds == { <<1, 0>>, <<3, 0>>, <<4, 0>>, <<7, 0>>, <<8, 0>>, <<11, 0>>, <<8, 2>> }

InitPopulated(n, r) ==
  \E t \in {Populated(n, r)} :
  /\ file = t.file
  /\ filesize = t.filesize
  /\ opened = TRUE
  /\ head = t.head
  /\ head_page = t.head_page
  /\ shadow = [k \in Keys |-> IF r < k[1] /\ k[1] <= n THEN SeedValue
                              ELSE NoValue]
  /\ removed = { k \in Keys : k[1] <= r }
  /\ last = IF r > 0 THEN Result("remove", <<r>>, NoValue, "BP_OK")
            ELSE Result("set", <<n>>, SeedValue, "BP_OK")
  /\ before = [filesize |-> 0, map |-> EmptyMapping, tail |-> "intact"]
  /\ nops = 0

Init == InitAbsent \/ \E s \in Seeds : InitPopulated(s[1], s[2])

\* bp_open
OpenOp(max) ==
  /\ ~opened /\ nops < max
  /\ \E o \in {bp_open(file, filesize)} :
     /\ Install(o.t)
     /\ opened' = (o.ret = "BP_OK")
     /\ last' = Result("open", <<>>, NoValue, o.ret)
     /\ before' = [before EXCEPT !.filesize = filesize]
  /\ nops' = nops + 1
  /\ UNCHANGED <<shadow, removed>>

\* bp_close
CloseOp(max) ==
  /\ opened /\ nops < max
  /\ opened' = FALSE
  /\ head' = NoHead
  /\ head_page' = NoPage
  /\ last' = Result("close", <<>>, NoValue, "BP_OK")
  /\ before' = [filesize |-> filesize, map |-> Mapping(Tree(-1)),
                tail |-> "intact"]
  /\ nops' = nops + 1
  /\ UNCHANGED <<file, filesize, shadow, removed>>

\* bp_get
GetOp(key, max) ==
  /\ opened /\ nops < max
  /\ \E g \in {bp_get(Tree(-1), key)} :
     last' = Result("get", key, g.value, g.ret)
  /\ nops' = nops + 1
  /\ UNCHANGED <<file, filesize, opened, head, head_page, shadow, removed, before>>

\* bp_set; a is the number of page buffers malloc grants (-1: all)
SetOp(key, value, a, max) ==
  /\ opened /\ nops < max
  /\ \E r \in {bp_set(Tree(a), key, value)} :
     /\ Install(r.t)
     /\ opened' = (r.ret # "SIGABRT")
     /\ last' = Result("set", key, value, r.ret)
     /\ shadow' = IF r.ret = "BP_OK" THEN [shadow EXCEPT ![key] = value]
                  ELSE shadow
     /\ removed' = IF r.ret = "BP_OK" THEN removed \ {key} ELSE removed
  /\ before' = [before EXCEPT !.filesize = filesize]
  /\ nops' = nops + 1

\* bp_remove
RemoveOp(key, a, max) ==
  /\ opened /\ nops < max
  /\ \E r \in {bp_remove(Tree(a), key)} :
     /\ Install(r.t)
     /\ opened' = (r.ret # "SIGABRT")
     /\ last' = Result("remove", key, NoValue, r.ret)
     /\ shadow' = IF r.ret = "BP_OK" THEN [shadow EXCEPT ![key] = NoValue]
                  ELSE shadow
     /\ removed' = IF r.ret = "BP_OK" THEN removed \cup {key} ELSE removed
  /\ before' = [before EXCEPT !.filesize = filesize]
  /\ nops' = nops + 1

\* bp_compact
CompactOp(max) ==
  /\ opened /\ nops < max
  /\ \E r \in {bp_compact(Tree(-1))} :
     /\ Install(r.t)
     /\ opened' = (r.ret # "SIGABRT")
     /\ last' = Result("compact", <<>>, NoValue, r.ret)
  /\ before' = [filesize |-> filesize, map |-> Mapping(Tree(-1)),
                tail |-> "intact"]
  /\ nops' = nops + 1
  /\ UNCHANGED <<shadow, removed>>

Open == OpenOp(MaxOps)
Close == CloseOp(MaxOps)
Get(key) == GetOp(key, MaxOps)
Set(key, value) == SetOp(key, value, -1, MaxOps)
Remove(key) == RemoveOp(key, -1, MaxOps)
Compact == CompactOp(MaxOps)

Next ==
  \/ Open
  \/ Close
  \/ \E k \in Keys : Get(k)
  \/ \E k \in Keys, v \in Values : Set(k, v)
  \/ \E k \in Keys : Remove(k)
  \/ Compact

Spec == Init /\ [][Next]_vars

(***************************************************************************)
(* SpecCrash: the file of a closed tree is cut at a byte offset, or        *)
(* foreign bytes are appended to it, before it is opened again.            *)
(***************************************************************************)
CrashKeys == { <<b>> : b \in 1..MaxCrashKey }

\* the file cut at byte t: the blocks that end at or before t stay whole
Truncate(t) ==
  /\ ~opened /\ nops < MaxCrashOps
  /\ file' = SelectSeq(file, LAMBDA blk : blk.offset + blk.size <= t)
  /\ filesize' = t
  /\ last' = Result("truncate", <<>>, NoValue, "BP_OK")
  /\ before' = [before EXCEPT !.tail = IF before.tail \in {"intact", "cut"}
                                       THEN "cut" ELSE "mixed"]
  /\ nops' = nops + 1
  /\ UNCHANGED <<opened, head, head_page, shadow, removed>>

\* n bytes that are no block appended to the file
Garbage(n) ==
  /\ ~opened /\ nops < MaxCrashOps
  /\ filesize' = filesize + n
  /\ last' = Result("garbage", <<>>, NoValue, "BP_OK")
  /\ before' = [before EXCEPT !.tail = IF before.tail \in {"intact", "garbage"}
                                       THEN "garbage" ELSE "mixed"]
  /\ nops' = nops + 1
  /\ UNCHANGED <<file, opened, head, head_page, shadow, removed>>

OpenC == OpenOp(MaxCrashOps)
CloseC == CloseOp(MaxCrashOps)
SetC(key, value) == SetOp(key, value, -1, MaxCrashOps)
RemoveC(key) == RemoveOp(key, -1, MaxCrashOps)

NextCrash ==
  \/ OpenC
  \/ CloseC
  \/ \E k \in CrashKeys, v \in Values : SetC(k, v)
  \/ \E k \in CrashKeys : RemoveC(k)
  \/ \E t \in 0..(filesize - 1) : Truncate(t)
  \/ \E n \in 1..MaxGarbage : Garbage(n)

SpecCrash == InitAbsent /\ [][NextCrash]_vars

(***************************************************************************)
(* SpecFail: malloc may refuse the serialization buffer of a page save.    *)
(***************************************************************************)
OpenF == OpenOp(MaxCrashOps)
CloseF == CloseOp(MaxCrashOps)
SetF(key, value, a) == SetOp(key, value, a, MaxCrashOps)
RemoveF(key, a) == RemoveOp(key, a, MaxCrashOps)

NextFail ==
  \/ OpenF
  \/ CloseF
  \/ \E k \in CrashKeys, v \in Values, a \in -1..MaxAllocs : SetF(k, v, a)
  \/ \E k \in CrashKeys, a \in -1..MaxAllocs : RemoveF(k, a)

SpecFail == InitAbsent /\ [][NextFail]_vars

(***************************************************************************)
(* SpecWriter: writes of any size on a file of any size.                   *)
(***************************************************************************)
InitWriter ==
  /\ file = <<>>
  /\ filesize \in 0..MaxFileSize
  /\ opened = TRUE
  /\ head = NoHead
  /\ head_page = NoPage
  /\ shadow = EmptyMapping
  /\ removed = {}
  /\ last = [op |-> "none", ret |-> "BP_OK", offset |-> 0, size |-> 0]
  /\ before = [filesize |-> filesize, map |-> EmptyMapping, tail |-> "intact"]
  /\ nops = 0

\* bp__writer_write of size bytes; size = -1 is the padding-only call
WriterWrite(comp, size) ==
  /\ nops < MaxWrites
  /\ \E r \in {bp__writer_write(Tree(-1), comp,
                              [kind |-> "value", body |-> <<>>], size)} :
     /\ file' = r.w.file
     /\ filesize' = r.w.filesize
     /\ last' = [op |-> "write", ret |-> r.ret, offset |-> r.offset,
                 size |-> size]
  /\ before' = [before EXCEPT !.filesize = filesize]
  /\ nops' = nops + 1
  /\ UNCHANGED <<opened, head, head_page, shadow, removed>>

NextWriter ==
  \E comp \in {"kCompressed", "kNotCompressed"}, size \in -1..MaxWriteSize :
    WriterWrite(comp, size)

SpecWriter == InitWriter /\ [][NextWriter]_vars

(***************************************************************************)
(* SpecSplit: bp__page_split of a full page, for page sizes from 2 up, into *)
(* a new root or into a parent that holds a key already.                   *)
(***************************************************************************)
\* the key of number k: one byte, or two when k is even
SplitKey(k) == IF k % 2 = 0 THEN <<k, k>> ELSE <<k>>

\* the entries of numbers S in ascending order; a leaf entry refers to a
\* value, an entry of an internal page to a child
Ascending(S) ==
  CHOOSE q \in [1..Cardinality(S) -> S] :
    \A i, j \in 1..Cardinality(S) : i < j => q[i] < q[j]

FullPage(type, ps, S) ==
  With(IF type = kLeaf THEN <<>> ELSE bp__page_create(kPage, 0, 0).keys,
       LAMBDA spine:
         With(spine \o [i \in 1..Cardinality(S) |->
                          [length |-> Len(SplitKey(Ascending(S)[i])),
                           offset |-> 8 * Ascending(S)[i], config |-> 0,
                           value |-> SplitKey(Ascending(S)[i])]],
              LAMBDA ks:
                [type |-> type, length |-> ps, keys |-> ks,
                 byte_size |-> SumKV(ks, ps), offset |-> 0, config |-> 0]))

\* the parents of a split: a new root, and a page that holds a greater key
SplitParents ==
  { bp__page_create(kPage, 0, 0),
    [bp__page_create(kPage, 0, 0) EXCEPT
       !.length = 2,
       !.keys = @ \o << [length |-> 1, offset |-> 0, config |-> 0,
                         value |-> <<MaxSplitKey + 1>>] >>,
       !.byte_size = @ + BP__KV_HEADER + 1] }

InitSplit ==
  \E ps \in 2..MaxPageSize, type \in {kLeaf, kPage} :
    \E S \in SUBSET (1..MaxSplitKey) :
      /\ Cardinality(S) = (IF type = kLeaf THEN ps ELSE ps - 1)
      /\ file = <<>>
      /\ filesize = 0
      /\ opened = TRUE
      /\ head = [NoHead EXCEPT !.page_size = ps]
      /\ head_page = FullPage(type, ps, S)
      /\ shadow = EmptyMapping
      /\ removed = {}
      /\ last = [op |-> "none", ret |-> "BP_OK", parent |-> NoPage, index |-> 0]
      /\ before = [filesize |-> 0, map |-> EmptyMapping, tail |-> "intact"]
      /\ nops = 0

\* bp__page_split of the full page head_page, the child at index 0 of parent
PageSplit(parent) ==
  /\ nops = 0
  /\ \E r \in {bp__page_split(Tree(-1), parent, 0, head_page)} :
       /\ file' = r.w.file
       /\ filesize' = r.w.filesize
       /\ last' = [op |-> "split", ret |-> r.ret, parent |-> r.page, index |-> 0]
  /\ nops' = 1
  /\ UNCHANGED <<opened, head, head_page, shadow, removed, before>>

NextSplit == \E parent \in SplitParents : PageSplit(parent)

SpecSplit == InitSplit /\ [][NextSplit]_vars

(***************************************************************************)
(* SpecFind: a closed file, with or without foreign bytes after its last   *)
(* head, is opened while pread fails at one stride of the head scan.       *)
(***************************************************************************)
\* the writer of the closed file whose read at stride k of the scan, counted
\* from the end of the file, fails (k = 0: no read fails)
ReadFailing(k) ==
  With(bp__writer_create(file, filesize), LAMBDA w:
    IF k = 0 THEN w
    ELSE [w EXCEPT !.badread = WritePadding(w).filesize - k * BP__HEAD_SIZE])

\* bp_open: the head scan of bp__writer_find with the tree's callbacks
FindOpen(k) ==
  /\ ~opened /\ nops < MaxCrashOps
  /\ \E o \in {bp__writer_find(ReadFailing(k), "kNotCompressed", BP__HEAD_SIZE)} :
     /\ Install(o.t)
     /\ opened' = (o.ret = "BP_OK")
     /\ last' = [op |-> "find", key |-> <<>>, value |-> NoValue,
                 ret |-> o.ret, stride |-> k]
  /\ before' = [before EXCEPT !.filesize = filesize]
  /\ nops' = nops + 1
  /\ UNCHANGED <<shadow, removed>>

CloseR == CloseOp(MaxCrashOps)

NextFind ==
  \/ \E k \in 0..MaxBadStride : FindOpen(k)
  \/ CloseR
  \/ Garbage(BP__HEAD_SIZE)

SpecFind == Init /\ [][NextFind]_vars

\* the mapping the open handle shows
Visible == Mapping(Tree(-1))

\* the child page that entry i of an internal page refers to
ChildOf(t, page, i) ==
  bp__page_load(t, bp__page_create(kPage, page.keys[i + 1].offset,
                                   page.keys[i + 1].config)).page

\* the lengths of the root-to-leaf paths below a page
RECURSIVE LeafDepths(_, _)
LeafDepths(t, page) ==
  IF page.type # kPage THEN {1}
  ELSE UNION { { d + 1 : d \in LeafDepths(t, ChildOf(t, page, i)) } :
               i \in 0..(page.length - 1) }

RootDepths == LeafDepths(Tree(-1), head_page)

(***************************************************************************)
(* Properties.                                                             *)
(***************************************************************************)
Got(k) == bp_get(Tree(-1), k)

\* C1: while a handle is open, get of every key whose last successful
\* mutation was set(k, v) returns BP_OK and exactly v, whatever operations on
\* other keys (splits and collapses included) came after that set.
C1_GetReturnsLastSet ==
  opened =>
    \A k \in Keys :
      shadow[k] # NoValue => Got(k) = [ret |-> "BP_OK", value |-> shadow[k]]

\* C1 witness: a key was set to the empty value, then set of the key <<12>>
\* split a leaf and an internal page below the root (the root gained its
\* third entry), and get of the first key still returns the empty value.
C1_Witness ==
  /\ opened /\ nops = 2
  /\ last.op = "set" /\ last.ret = "BP_OK" /\ last.key = << 12 >>
  /\ head_page.type = kPage /\ head_page.length = 3 /\ RootDepths = {3}
  /\ \E k \in Keys : k # last.key /\ shadow[k] = <<>> /\ Got(k).value = <<>>

\* C2: while a handle is open, get of every key whose last successful
\* mutation was remove(k) returns BP_ENOTFOUND.
C2_GetAfterRemove ==
  opened =>
    \A k \in removed : Got(k) = [ret |-> "BP_ENOTFOUND", value |-> NoValue]

\* C2 witness: the remove that emptied a leaf left the internal root with one
\* child, the root collapsed into that leaf, and the removed key is absent.
C2_Witness ==
  /\ opened /\ nops = 2 /\ before.filesize < filesize
  /\ last.op = "remove" /\ last.ret = "BP_OK"
  /\ head_page.type = kLeaf /\ head_page.length = 2
  /\ removed = { << 1 >>, << 2 >> }
  /\ Got(last.key).ret = "BP_ENOTFOUND"

\* C2 witness for the last key of the tree: the root is an empty leaf.
C2_WitnessEmpty ==
  /\ opened /\ last.op = "remove" /\ last.ret = "BP_OK"
  /\ head_page.type = kLeaf /\ head_page.length = 0
  /\ Got(last.key).ret = "BP_ENOTFOUND"

\* C3: remove of a key that get does not find returns BP_ENOTFOUND and leaves
\* the file, its size, the head and the in-memory root page as they were, so
\* the mapping later gets see is the same.
C3_RemoveAbsentChangesNothing ==
  [][ (opened /\ last'.op = "remove" /\ nops' = nops + 1
       /\ Got(last'.key).ret = "BP_ENOTFOUND")
      => /\ last'.ret = "BP_ENOTFOUND"
         /\ file' = file /\ filesize' = filesize
         /\ head' = head /\ head_page' = head_page
         /\ opened' ]_vars

\* C3 witness: remove returned BP_ENOTFOUND from a leaf two levels below the
\* root, and nothing was written.
C3_Witness ==
  /\ opened /\ last.op = "remove" /\ last.ret = "BP_ENOTFOUND"
  /\ RootDepths = {3}
  /\ before.filesize = filesize

\* the head blocks of the file that end at or before byte t
HeadsUpTo(t) ==
  { b \in 1..Len(file) : file[b].data.kind = "head"
                         /\ file[b].offset + file[b].size <= t }

\* the mapping described by the head block b of the file
MappingOfHead(b) ==
  With(bp__tree_read_head(bp__writer_create(file, filesize), file[b].data),
       LAMBDA r: IF r.ret = "BP_OK" THEN Mapping(r.t) ELSE [k \in Keys |-> Failed])

\* the mapping described by the last head block that ends at or before t
MappingUpTo(t) ==
  IF HeadsUpTo(t) = {} THEN EmptyMapping
  ELSE MappingOfHead(CHOOSE b \in HeadsUpTo(t) : \A c \in HeadsUpTo(t) : c <= b)

\* C4: after close and open of the same file the mapping is the one the
\* handle showed before close, whatever operations came before, failed ones
\* included.
C4_ReopenPreservesMapping ==
  (opened /\ last.op = "open" /\ last.ret = "BP_OK" /\ before.tail = "intact")
    => Visible = before.map

\* C5: a file cut at byte t and opened again shows the mapping of the last
\* head block that ends at or before t.
C5_TruncationFallsBack ==
  (opened /\ last.op = "open" /\ before.tail = "cut")
    => Visible = MappingUpTo(before.filesize)

\* C6: bytes that form no head, appended after the last head of a closed
\* file, leave the mapping that open recovers as it was at close.
C6_GarbageKeepsMapping ==
  (opened /\ last.op = "open" /\ before.tail = "garbage")
    => Visible = before.map

\* C7: after a successful compact the handle shows the mapping it showed
\* before, and so does a handle opened on the file afterwards.
C7_CompactPreservesMapping ==
  (opened /\ last.op = "compact" /\ last.ret = "BP_OK")
    => /\ Visible = before.map
       /\ Mapping(bp_open(file, filesize).t) = before.map

\* C7 witness: a tree three pages deep, with dead blocks in its file, was
\* compacted, and it still holds keys.
C7_Witness ==
  /\ opened /\ last.op = "compact" /\ last.ret = "BP_OK"
  /\ RootDepths = {3}
  /\ filesize < before.filesize
  /\ Visible = before.map /\ before.map # EmptyMapping

\* C8: after a successful compact the file is no larger than it was before.
C8_CompactNeverGrows ==
  (last.op = "compact" /\ last.ret = "BP_OK") => filesize <= before.filesize

C10_OffsetsAligned ==
  /\ (last.op = "write" /\ last.ret = "BP_OK") => last.offset % PaddingSize = 0
  /\ \A b \in 1..Len(file) : file[b].offset % PaddingSize = 0

\* C10 witness: a payload was written on a file whose size was no multiple
\* of 8, after an earlier block.
C10_Witness ==
  /\ last.op = "write" /\ last.ret = "BP_OK" /\ last.size > 0
  /\ before.filesize % PaddingSize # 0
  /\ Len(file) = 2

\* C11: set, remove and the head write of open only append: the blocks the
\* file held stay as they were, every new block starts at or after the size
\* the file had and after the block before it, and the size never decreases.
C11_AppendOnly ==
  [][ (last'.op \in {"set", "remove", "open"} /\ nops' = nops + 1)
      => /\ Len(file') >= Len(file)
         /\ SubSeq(file', 1, Len(file)) = file
         /\ filesize' >= filesize
         /\ \A b \in (Len(file) + 1)..Len(file') :
              /\ file'[b].offset >= filesize
              /\ b > 1 => file'[b].offset >= file'[b - 1].offset + file'[b - 1].size
              /\ file'[b].offset + file'[b].size <= filesize' ]_vars

\* C11 witness: one set appended a value, the halves of two splits, the
\* pages above them and a head.
C11_Witness ==
  /\ opened /\ last.op = "set" /\ last.ret = "BP_OK"
  /\ filesize >= before.filesize + 256
  /\ Len(file) > 8

\* C12: after a set or remove that failed with an operation-fatal error, get
\* on the same handle returns, for every key, what the successful operations
\* before it left.
C12_FailedMutationInvisible ==
  (opened /\ last.op \in {"set", "remove"}
          /\ last.ret \notin {"BP_OK", "BP_ENOTFOUND"})
    => Visible = shadow

\* the signals a page operation gives its caller's frame
Signals == {"BP_ESPLITPAGE", "BP_EEMPTYPAGE"}

\* C13: no public operation returns BP_ESPLITPAGE or BP_EEMPTYPAGE, and in
\* every tree reached, insert and remove of any key on the root page return
\* neither.
C13_SignalsStayInside ==
  /\ last.ret \notin Signals
  /\ opened =>
       \A k \in Keys :
         /\ bp__page_insert(Tree(-1), head_page, KeyKV(k), TRUE).ret \notin Signals
         /\ bp__page_remove(Tree(-1), head_page, KeyKV(k), TRUE).ret \notin Signals

\* C13 witness: the leaf that held <<3>> and <<4>> was emptied, its parent
\* (the root) dropped it and, left with one child, became that child.
C13_Witness ==
  /\ opened /\ last.op = "remove" /\ last.ret = "BP_OK"
  /\ removed = { <<1>>, <<2>>, <<3>>, <<4>> }
  /\ head_page.type = kPage /\ RootDepths = {2}

\* the pages below a page: its children and the pages below them
RECURSIVE PagesBelow(_, _)
PagesBelow(t, page) ==
  IF page.type # kPage THEN {}
  ELSE UNION { {c} \cup PagesBelow(t, c) :
               c \in { ChildOf(t, page, i) : i \in 0..(page.length - 1) } }

\* the pages of the open tree: the root and the pages below it
TreePages == {head_page} \cup PagesBelow(Tree(-1), head_page)

\* the page blocks of the file
SavedPages ==
  { file[b].data.body : b \in { c \in 1..Len(file) : file[c].data.kind = "page" } }

\* C14: between mutations every page below the root has from 1 to
\* page_size - 1 entries, the root has fewer than page_size, and no page
\* block of the file holds page_size entries.
C14_PageLengths ==
  opened =>
    /\ \A p \in PagesBelow(Tree(-1), head_page) :
         1 <= p.length /\ p.length <= head.page_size - 1
    /\ head_page.length < head.page_size
    /\ \A body \in SavedPages : Len(body) < head.page_size

\* C14 witness: after removes and a set, one page below the root holds one
\* entry and another holds page_size - 1.
C14_Witness ==
  /\ opened /\ last.op = "set" /\ last.ret = "BP_OK" /\ removed # {}
  /\ \E p, q \in PagesBelow(Tree(-1), head_page) :
       p.length = 1 /\ q.length = head.page_size - 1

\* the halves of the last split, read back through the parent's entries
SplitLeft == ChildOf(Tree(-1), last.parent, last.index)
SplitRight == ChildOf(Tree(-1), last.parent, last.index + 1)

\* C17: a split returns BP_OK; left holds the child's entries [0, middle)
\* and right the entries [middle, page_size), so no entry is lost; the
\* parent's entry at index refers to left, and its entry at index + 1 has the
\* key of the child's entry at middle and refers to right.
C17_SplitLosesNoEntry ==
  last.op = "split" =>
    /\ last.ret = "BP_OK"
    /\ SplitLeft.keys = SubSeq(head_page.keys, 1, head.page_size \div 2)
    /\ SplitRight.keys = SubSeq(head_page.keys, (head.page_size \div 2) + 1,
                                head.page_size)
    /\ SplitLeft.length + SplitRight.length = head.page_size
    /\ last.parent.keys[last.index + 2].value =
         head_page.keys[(head.page_size \div 2) + 1].value

\* C15: no assertion of bp__page_save fails; the byte_size of every page of
\* the tree, and the size of every page block of the file, is the sum of
\* 24 + key length over the page's entries.
C15_ByteSizeKept ==
  /\ last.ret # "SIGABRT"
  /\ opened => \A p \in TreePages : p.byte_size = SumKV(p.keys, p.length)
  /\ \A b \in 1..Len(file) :
       file[b].data.kind = "page"
         => file[b].usize = SumKV(file[b].data.body, Len(file[b].data.body))

\* the entries of a page from its entry at index first on are strictly
\* increasing under the comparator
StrictlyIncreasing(p, first) ==
  \A i \in (first + 1)..(p.length - 1) :
    compare_cb(p.keys[i], p.keys[i + 1]) < 0

\* C16: the entries of every page of the tree are strictly increasing under
\* the comparator, the first entry of an internal page excepted; no leaf
\* holds two entries with equal keys.
C16_EntriesStrictlyIncreasing ==
  opened =>
    \A p \in TreePages :
      /\ StrictlyIncreasing(p, IF p.type = kPage THEN 1 ELSE 0)
      /\ p.type = kLeaf =>
           \A i, j \in 1..p.length :
             p.keys[i].value = p.keys[j].value => i = j

\* C16 witness: the first operation set the empty value for a key stored
\* with another value (the stored keys are consecutive at the start, and
\* stored keys lie on both sides of it); its entry was replaced in a leaf
\* below the root that holds further entries.
C16_Witness ==
  /\ opened /\ nops = 1 /\ last.op = "set" /\ last.ret = "BP_OK"
  /\ last.value = <<>>
  /\ \E k1, k2 \in Keys :
       /\ k1[1] < last.key[1] /\ last.key[1] < k2[1]
       /\ shadow[k1] = SeedValue /\ shadow[k2] = SeedValue
  /\ \E p \in PagesBelow(Tree(-1), head_page) :
       /\ p.type = kLeaf /\ p.length >= 2
       /\ \E i \in 1..p.length : p.keys[i].value = last.key

\* C18: every internal page of the tree has at least one entry, and its
\* first entry has the zero-length key.
C18_FirstEntrySynthetic ==
  opened =>
    \A p \in TreePages :
      p.type = kPage => p.length >= 1 /\ p.keys[1].length = 0

\* Live pages.  Each operator below follows one function of src/pages.c and
\* counts the pages the call created (bp__page_create) and did not destroy
\* (bp__page_destroy) by the time it returns; the page passed in belongs to
\* the caller and is not counted.  A failed assertion ends the process.

\* bp__page_search: the child stays live when its load fails
SearchLive(page, res) ==
  IF page.type = kPage /\ res.ret \notin {"BP_OK", "SIGABRT"} THEN 1 ELSE 0

\* bp__page_get: the child is destroyed whatever the inner call returns
RECURSIVE GetLive(_, _, _)
GetLive(w, page, kv) ==
  With(bp__page_search(w, page, kv), LAMBDA res:
    IF res.ret # "BP_OK" THEN SearchLive(page, res)
    ELSE IF res.child = NoPage THEN 0
    ELSE GetLive(w, res.child, kv))

\* bp__page_split: left, right and child stay live when a save fails
SplitLive(s) == IF s.ret \in {"BP_OK", "SIGABRT"} THEN 0 ELSE 3

\* the tail of bp__page_insert: the split of a full root
InsertFinishLive(w, page, isRoot) ==
  IF page.length = w.page_size /\ isRoot
  THEN SplitLive(bp__page_split(w, bp__page_create(kPage, 0, 0), 0, page))
  ELSE 0

\* bp__page_insert: the child is destroyed by the split or once its offsets
\* are taken, and stays live when the inner call returns another error
RECURSIVE InsertLive(_, _, _, _)
InsertLive(w, page, kv, isRoot) ==
  With(bp__page_search(w, page, kv), LAMBDA res:
    IF res.ret # "BP_OK" THEN SearchLive(page, res)
    ELSE IF res.child = NoPage
    THEN InsertFinishLive(w, InsertAtLeaf(page, kv, res), isRoot)
    ELSE With(bp__page_insert(w, res.child, kv, FALSE), LAMBDA r:
           InsertLive(w, res.child, kv, FALSE) +
           (IF r.ret = "SIGABRT" THEN 0
            ELSE IF r.ret # "BP_OK" /\ r.ret # "BP_ESPLITPAGE" THEN 1
            ELSE IF r.ret = "BP_ESPLITPAGE"
            THEN With(bp__page_split(r.w, page, res.index, r.page), LAMBDA s:
                   IF s.ret # "BP_OK" THEN SplitLive(s)
                   ELSE InsertFinishLive(s.w, s.page, isRoot))
            ELSE InsertFinishLive(r.w, UpdateOffsets(page, res.index, r.page),
                                  isRoot))))

\* bp__page_remove: the child is destroyed after BP_OK and BP_EEMPTYPAGE, and
\* stays live when the inner call returns another error
RECURSIVE RemoveLive(_, _, _)
RemoveLive(w, page, kv) ==
  With(bp__page_search(w, page, kv), LAMBDA res:
    IF res.ret # "BP_OK" THEN SearchLive(page, res)
    ELSE IF res.child = NoPage THEN 0
    ELSE With(bp__page_remove(w, res.child, kv, FALSE), LAMBDA r:
           RemoveLive(w, res.child, kv) +
           (IF r.ret \notin {"BP_OK", "BP_EEMPTYPAGE", "SIGABRT"} THEN 1 ELSE 0)))

\* bp_set: the value is written, then the entry is inserted from the root
SetLive(t, key, value) ==
  With(bp__writer_write(t, "kCompressed",
                        [kind |-> "value", body |-> value], Len(value)),
       LAMBDA wr:
         IF wr.ret # "BP_OK" THEN 0
         ELSE InsertLive(wr.w, t.head_page,
                         [KeyKV(key) EXCEPT !.offset = wr.offset,
                                            !.config = wr.size],
                         TRUE))

\* C19: no page created by get, set or remove is live when the operation
\* returns, whatever it returns.
C19_NoLivePages ==
  [][ (opened /\ nops' = nops + 1) =>
        /\ last'.op = "get" => GetLive(Tree(-1), head_page, KeyKV(last'.key)) = 0
        /\ last'.op = "set" => SetLive(Tree(-1), last'.key, last'.value) = 0
        /\ last'.op = "remove" =>
             RemoveLive(Tree(-1), head_page, KeyKV(last'.key)) = 0 ]_vars

\* the loop of bp__writer_find on the closed file, with the read at stride k
\* failing
LastScan(k) ==
  With(bp__writer_write(ReadFailing(k), "kNotCompressed", Null, -1).w, LAMBDA w:
    FindScan(w, "kNotCompressed", BP__HEAD_SIZE, w.filesize))

\* C20: when a read of the head scan returns an error, find returns that
\* error, the handle is not opened and no head is appended; a head is
\* appended (the miss callback ran) exactly when every candidate block was
\* read and none matched.
C20_ReadErrorAbortsFind ==
  [][ (last'.op = "find" /\ nops' = nops + 1) =>
        \E scan \in {LastScan(last'.stride)} :
          /\ scan.ret # "BP_OK" =>
               last'.ret = scan.ret /\ ~opened' /\ file' = file
          /\ Len(file') > Len(file) <=> (scan.ret = "BP_OK" /\ ~scan.match) ]_vars

\* C22: every leaf reachable from the root of the open tree is at the same
\* depth.
C22_Balanced ==
  opened => Cardinality(RootDepths) = 1

\* the head blocks of the file
HeadBlocks == { b \in 1..Len(file) : file[b].data.kind = "head" }

\* the root page that the head in block b names, loaded from the file
HeadRoot(b) ==
  bp__page_load(Tree(-1), bp__page_create(kPage, file[b].data.body.offset,
                                          file[b].data.body.config)).page

\* the persisted pages of the tree that the head in block b names
HeadPages(b) ==
  With(HeadRoot(b), LAMBDA root: {root} \cup PagesBelow(Tree(-1), root))

\* the size in the file of the block an entry refers to: config >> 1 for a
\* child page, config for a value
EntrySize(p, e) == IF p.type = kPage THEN e.config \div 2 ELSE e.config

\* every entry of a persisted page refers to a block that ends at or before
\* the page, a page block for an internal page and a value block for a leaf
ChildrenFirst(p) ==
  \A i \in 1..p.length :
    With(EntrySize(p, p.keys[i]), LAMBDA csize:
      /\ p.keys[i].offset + csize <= p.offset
      /\ csize > 0 =>
           \E c \in BlockAt(Tree(-1), p.keys[i].offset, csize) :
             file[c].data.kind = IF p.type = kPage THEN "page" ELSE "value")

\* the places the head in block b and the entries of its tree's pages refer
\* to, as <<offset, size>>
References(b, pages) ==
  { << file[b].data.body.offset, file[b].data.body.config \div 2 >> } \cup
  UNION { { << p.keys[i].offset, EntrySize(p, p.keys[i]) >> : i \in 1..p.length } :
          p \in pages }

\* C21: the root a head names ends at or before the head; every entry of
\* every page of that tree refers to a block that ends at or before the
\* page; and every block appended between the previous head and this one (the
\* pages and the value a mutation or a compaction saved) is referred to from
\* this head's tree, so the parents carry their children's newest places.
C21_ChildrenBeforeParents ==
  \A b \in HeadBlocks :
    /\ file[b].data.body.offset + file[b].data.body.config \div 2 <= file[b].offset
    /\ With(HeadPages(b), LAMBDA pages:
         /\ \A p \in pages : ChildrenFirst(p)
         /\ With(References(b, pages), LAMBDA refs:
              \A c \in 1..(b - 1) :
                (\A d \in c..(b - 1) : d \notin HeadBlocks)
                  => << file[c].offset, file[c].size >> \in refs))

\* C21 witness: a mutation was followed by a compaction, and the file holds
\* the copy of a tree of three levels under its last head.
C21_Witness ==
  /\ opened /\ nops = 2 /\ last.op = "compact" /\ last.ret = "BP_OK"
  /\ \E k \in Keys : shadow[k] = <<>>
  /\ RootDepths = {3}
  /\ file[Len(file)].data.kind = "head"

====
